---- MODULE Spec2Model ----
(***************************************************************************)
(* Model of the pipeline steps of Jlin8002/pipeline:                       *)
(*   StepSrcExtPy.run   (src/Developments/stepsextractors/stepsrcextpy.py) *)
(*   StepFluxCalSex.run (src/source/stonesteps/stepfluxcalsex.py)          *)
(*   StepAstrometry.run (src/source/stonesteps/stepastrometry.py)          *)
(*                                                                         *)
(* Floating point values are records: Num(v) is the number v, NaN is the   *)
(* IEEE not-a-number.  Comparisons follow IEEE: every comparison with NaN  *)
(* is false except !=.  numpy arrays are 1-based sequences here.           *)
(***************************************************************************)
EXTENDS Integers, Sequences, FiniteSets, TLC

(***************************************************************************)
(* Bounds of the model                                                     *)
(***************************************************************************)
\* largest number of blobs in the image given to StepSrcExtPy
MaxSources == 3

(***************************************************************************)
(* Floating point helpers                                                  *)
(***************************************************************************)
Num(v) == [k |-> "num", v |-> v]
NaN == [k |-> "nan", v |-> 0]
IsNaN(f) == f.k = "nan"

\* f != 0 on floats (NaN != 0 is True)
NotZero(f) == IsNaN(f) \/ f.v # 0

\* (x / y) < cn/cd for floats x, y and positive integers cn, cd, as numpy
\* evaluates it: x/0 is +inf, -inf or NaN, and NaN < c is False
RatioLT(x, y, cn, cd) ==
    IF IsNaN(x) \/ IsNaN(y) THEN FALSE
    ELSE IF y.v = 0 THEN x.v < 0
    ELSE IF y.v > 0 THEN cd * x.v < cn * y.v
    ELSE cd * x.v > cn * y.v

\* (x / y) > cn/cd, same conventions
RatioGT(x, y, cn, cd) ==
    IF IsNaN(x) \/ IsNaN(y) THEN FALSE
    ELSE IF y.v = 0 THEN x.v > 0
    ELSE IF y.v > 0 THEN cd * x.v > cn * y.v
    ELSE cd * x.v < cn * y.v

\* x >= y on floats
FloatGE(x, y) == ~IsNaN(x) /\ ~IsNaN(y) /\ x.v >= y.v

\* the order numpy sorts floats in: ascending, NaN last
SortLE(x, y) == IsNaN(y) \/ (~IsNaN(x) /\ x.v <= y.v)

(***************************************************************************)
(* numpy helpers                                                           *)
(***************************************************************************)
Perms(n) == {p \in [1..n -> 1..n] : \A i, j \in 1..n : p[i] = p[j] => i = j}

\* np.argsort(vals): an index array that puts vals in sorted order.  The
\* default kind is an unstable quicksort, so the order of equal keys is any.
Argsorts(vals) ==
    {p \in Perms(Len(vals)) :
        \A i, j \in 1..Len(vals) : i < j => SortLE(vals[p[i]], vals[p[j]])}

\* np.arange(lo, hi): lo, lo+1, ..., hi-1 (ArangeFromZero: counted from 0)
ArangeFromZero(lo, hi) == [i \in 1..(IF hi > lo THEN hi - lo ELSE 0) |-> i - 1]
Arange(lo, hi) == [i \in 1..(IF hi > lo THEN hi - lo ELSE 0) |-> lo + i - 1]

\* np.take_along_axis(arr, idx, axis=0) with 1-based indices
TakeAlong(arr, idx) == [i \in 1..Len(idx) |-> arr[idx[i]]]

\* reverser = np.arange(len(ind)-1, -1, -1); np.take_along_axis(ind, reverser)
\* (NoReverse: the index array as argsort gave it)
NoReverse(ind) == ind
Reverse(ind) == TakeAlong(ind, [i \in 1..Len(ind) |-> Len(ind) + 1 - i])

\* arr[mask]: boolean-mask indexing
RECURSIVE MaskSelect(_, _)
MaskSelect(arr, mask) ==
    IF Len(arr) = 0 THEN << >>
    ELSE LET n == Len(arr)
             front == MaskSelect(SubSeq(arr, 1, n - 1), SubSeq(mask, 1, n - 1))
         IN IF mask[n] THEN Append(front, arr[n]) ELSE front

\* np.count_nonzero(mask)
CountNonzero(mask) == Cardinality({i \in 1..Len(mask) : mask[i]})

Column(objs, field) == [i \in 1..Len(objs) |-> objs[i][field]]

RECURSIVE SumSeq(_)
SumSeq(s) == IF Len(s) = 0 THEN 0 ELSE s[Len(s)] + SumSeq(SubSeq(s, 1, Len(s) - 1))

RECURSIVE ProdSeq(_)
ProdSeq(s) == IF Len(s) = 0 THEN 1 ELSE s[Len(s)] * ProdSeq(SubSeq(s, 1, Len(s) - 1))

\* the values of a float array that are not NaN, as integers
Finite(arr) ==
    LET keep == MaskSelect(arr, [i \in 1..Len(arr) |-> ~IsNaN(arr[i])])
    IN [i \in 1..Len(keep) |-> keep[i].v]

\* np.nanmean(arr): the mean of the non-NaN values as the fraction sum/n,
\* NaN for an empty or all-NaN array
NanMean(arr) ==
    LET f == Finite(arr)
    IN IF Len(f) = 0 THEN [k |-> "nan", sum |-> 0, n |-> 0]
       ELSE [k |-> "num", sum |-> SumSeq(f), n |-> Len(f)]

\* twice the median of a sequence of integers
Median2(ints) ==
    LET n == Len(ints)
        p == CHOOSE q \in Perms(n) : \A i, j \in 1..n : i < j => ints[q[i]] <= ints[q[j]]
        s == [i \in 1..n |-> ints[p[i]]]
    IN IF n % 2 = 1 THEN 2 * s[(n + 1) \div 2] ELSE s[n \div 2] + s[n \div 2 + 1]

\* astropy.stats.mad_std(arr, ignore_nan=True): the median absolute deviation
\* times 1.4826.  mad4 is 4 * MAD, so the value is mad4 * 1.4826 / 4.
MadStd(arr) ==
    LET f == Finite(arr)
        m2 == Median2(f)
        dev == [i \in 1..Len(f) |-> IF 2 * f[i] >= m2 THEN 2 * f[i] - m2 ELSE m2 - 2 * f[i]]
    IN IF Len(f) = 0 THEN [k |-> "nan", mad4 |-> 0]
       ELSE [k |-> "num", mad4 |-> Median2(dev)]

(***************************************************************************)
(* StepSrcExtPy: inputs                                                    *)
(***************************************************************************)
\* The image is a sequence of blobs.  Blob k sits at x = k, y = YOf(k); the
\* other fields are what the sep library reports for it: the peak
\* significance over the noise map, the isophotal flux, the ellipse axes a
\* and b, and the elliptical flux fe, its error fee and the half-flux
\* radius hr that sum_ellipse and flux_radius measure at its position.
\* blend is 0 for a blob that stands alone; a blob that sits on the wing of
\* a brighter object has the number of deblending levels (deblend_nthresh)
\* from which on sep.extract reports it as a source of its own.
Blob(peak, iso, a, b, fe, fee, hr) ==
    [peak |-> peak, iso |-> iso, a |-> a, b |-> b, fe |-> fe, fee |-> fee, hr |-> hr,
     blend |-> 0]

Blended(blob, nthresh) == [blob EXCEPT !.blend = nthresh]

\* the blobs an image is made of
BlobPool ==
    << Blob(50, 9, 1, 1, Num(5), Num(1), Num(2)),     \* bright round star
       Blob(5, 3, 4, 3, Num(2), Num(1), Num(3)),      \* faint star, a/b = 1.33
       Blob(5, 3, 1, 1, Num(0 - 2), Num(1), Num(1)),  \* negative aperture flux
       Blob(50, 7, 1, 1, NaN, Num(1), NaN),           \* flux not measurable
       Blob(5, 2, 3, 2, Num(2), Num(1), Num(2)),      \* a/b exactly 1.5
       Blob(50, 9, 1, 1, Num(1000), Num(1), Num(2)),  \* S/N exactly 1000
       Blob(5, 1, 1, 1, Num(0), Num(1), Num(1)),      \* zero flux
       Blob(50, 8, 1, 1, Num(3), Num(0), Num(1)),     \* zero flux error
       Blob(50, 6, 1, 1, Num(2), Num(1), Num(4)),     \* star as bright as the faint one
       Blended(Blob(50, 8, 1, 1, Num(4), Num(1), Num(2)), 64),   \* close companion
       Blended(Blob(50, 5, 1, 1, Num(6), Num(1), Num(3)), 16) >> \* wide companion

\* the sequences of at most maxlen rows taken in order from a pool of rows
SubCatalogs(pool, maxlen) ==
    {MaskSelect(pool, [i \in 1..Len(pool) |-> i \in S]) :
        S \in {T \in SUBSET (1..Len(pool)) : Cardinality(T) <= maxlen}}

Images == SubCatalogs(BlobPool, MaxSources)

YOf(k) == 10 * k

\* paramlist defaults and the values of 'extractthersh' tried
ExtractThreshValues == {2, 6}
bright_factor == 10
\* 'deblend' (line 92), and the deblend_nthresh sep.extract uses when the
\* call gives none (line 143)
deblend_nthresh == 256
SepDeblendDefault == 32
\* the seven decimals of '%.7f' (line 314)
RegDecimals == 10000000
ElimNum == 3
ElimDen == 2
SNMax == 1000

(***************************************************************************)
(* StepSrcExtPy: state                                                     *)
(***************************************************************************)
VARIABLES
    sx_pc,            \* position in StepSrcExtPy.run
    psimage,          \* self.datain.image
    extract_thresh,   \* self.getarg('extractthersh')
    sources, sourcesb,
    objects, objectsb,
    flux_elip, fluxerr_elip, rh,
    flux_elipb, fluxerr_elipb, rhb,
    seo_SN, seo_SNB,
    rhmean, rhstd, elmean,
    sources_table, sourceb_table,
    dataout,          \* the output data object of StepSrcExtPy
    sourcetable,      \* self.getarg('sourcetable')
    reg_file,         \* the region file ...FCALsources.reg
    txt_file          \* the text table ...FALsources.txt

sx_vars == <<sx_pc, psimage, extract_thresh, sources, sourcesb, objects, objectsb,
             flux_elip, fluxerr_elip, rh, flux_elipb, fluxerr_elipb, rhb,
             seo_SN, seo_SNB, rhmean, rhstd, elmean, sources_table,
             sourceb_table, dataout, sourcetable, reg_file, txt_file>>

\* the files of lines 302-321
sx_export == <<sourcetable, reg_file, txt_file>>

NoFile == [written |-> FALSE, content |-> << >>]

EmptyTable == [ID |-> << >>, X |-> << >>, Y |-> << >>, Flux |-> << >>,
               Fluxerr |-> << >>, HalfLight |-> << >>]

Unset == [k |-> "unset"]

NoData == [produced |-> FALSE, RHALF |-> Unset, RHALFSTD |-> Unset, ELONG |-> Unset,
           low |-> EmptyTable, high |-> EmptyTable, tables |-> FALSE,
           EXTRACT_THRESH |-> 0, BRIGHT_FACTOR |-> 0]

SxIdle ==
    /\ sources = << >> /\ sourcesb = << >>
    /\ objects = << >> /\ objectsb = << >>
    /\ flux_elip = << >> /\ fluxerr_elip = << >> /\ rh = << >>
    /\ flux_elipb = << >> /\ fluxerr_elipb = << >> /\ rhb = << >>
    /\ seo_SN = << >> /\ seo_SNB = << >>
    /\ rhmean = Unset /\ rhstd = Unset /\ elmean = Unset
    /\ sources_table = EmptyTable /\ sourceb_table = EmptyTable
    /\ dataout = NoData
    /\ reg_file = NoFile /\ txt_file = NoFile

(***************************************************************************)
(* StepSrcExtPy: the sep library                                           *)
(***************************************************************************)
\* sep.extract(image_sub, thresh, err=bkg_rms, deblend_nthresh=nthresh): the
\* source records of the blobs whose peak is above thresh times the noise
\* and which nthresh deblending levels tell from their neighbours
SepExtract(img, thresh, nthresh) ==
    MaskSelect([k \in 1..Len(img) |->
                    [x |-> k, y |-> YOf(k), a |-> img[k].a, b |-> img[k].b,
                     flux |-> img[k].iso]],
               [k \in 1..Len(img) |->
                    img[k].peak > thresh /\ nthresh >= img[k].blend])

\* sep.sum_ellipse(image_sub, x, y, a, b, theta, r=kfactor*kronrad, ...):
\* flux and flux error measured at each object's position
SepSumEllipseFlux(img, objs) == [i \in 1..Len(objs) |-> img[objs[i].x].fe]
SepSumEllipseErr(img, objs) == [i \in 1..Len(objs) |-> img[objs[i].x].fee]

\* sep.flux_radius(image_sub, x, y, rmax, frac)
\* (SepFluxRadiusReversed: the radii in the opposite order of the objects)
SepFluxRadiusReversed(img, objs) ==
    [i \in 1..Len(objs) |-> img[objs[Len(objs) + 1 - i].x].hr]
SepFluxRadius(img, objs) == [i \in 1..Len(objs) |-> img[objs[i].x].hr]

(***************************************************************************)
(* StepSrcExtPy: the acceptance cuts and the tables                        *)
(***************************************************************************)
\* elong = (objects['a']/objects['b']) < elim
Elong(objs) ==
    [i \in 1..Len(objs) |-> RatioLT(Num(objs[i].a), Num(objs[i].b), ElimNum, ElimDen)]

\* seo_SN = (elong) & ((flux/fluxerr)<1000) & (fluxerr != 0) & (flux != 0)
AcceptMask(objs, flux, fluxerr) ==
    [i \in 1..Len(objs) |->
        /\ Elong(objs)[i]
        /\ RatioLT(flux[i], fluxerr[i], SNMax, 1)
        /\ NotZero(fluxerr[i])
        /\ NotZero(flux[i])]

\* np.nanmean(objects['a'][seo_SN]/objects['b'][seo_SN]) as the fraction
\* num/den; the accepted sources have b # 0
ElMean(objs) ==
    LET n == Len(objs)
        bs == Column(objs, "b")
        term(i) == objs[i].a * ProdSeq([j \in 1..n |-> IF j = i THEN 1 ELSE bs[j]])
    IN IF n = 0 THEN [k |-> "nan", num |-> 0, den |-> 1]
       ELSE [k |-> "num", num |-> SumSeq([i \in 1..n |-> term(i)]),
             den |-> n * ProdSeq(bs)]

\* the six fits.Column objects of one table
MakeCols(objs, flux, fluxerr, hr, mask) ==
    [ID |-> Arange(1, Len(MaskSelect(Column(objs, "x"), mask)) + 1),
     X |-> MaskSelect(Column(objs, "x"), mask),
     Y |-> MaskSelect(Column(objs, "y"), mask),
     Flux |-> MaskSelect(flux, mask),
     Fluxerr |-> MaskSelect(fluxerr, mask),
     HalfLight |-> MaskSelect(hr, mask)]

\* '%.7f' % v for a whole number of pixels v: the decimal written, in units
\* of 1e-7 pixel; '%i' % n for a whole number n
FormatF7(v) == v * RegDecimals
FormatI(n) == n

\* lines 313-315: one circle line per accepted source
\* (RegionLinesAllObjects: one per measured source)
RegionLinesAllObjects(objs, mask, num) ==
    [i \in 1..Len(objs) |->
        [x |-> FormatF7(objs[i].x), y |-> FormatF7(objs[i].y),
         text |-> FormatI(IF i <= Len(num) THEN num[i] ELSE 0)]]
RegionLines(objs, mask, num) ==
    [i \in 1..Len(MaskSelect(Column(objs, "x"), mask)) |->
        [x |-> FormatF7(MaskSelect(Column(objs, "x"), mask)[i]),
         y |-> FormatF7(MaskSelect(Column(objs, "y"), mask)[i]),
         text |-> FormatI(num[i])]]

(***************************************************************************)
(* StepFluxCalSex: units and inputs                                        *)
(*                                                                         *)
(* Sky coordinates and separations are in units of 0.01 arcsec (1/360000   *)
(* degree); d2d holds the SQUARE of the angular separation and is compared *)
(* with the square of the threshold.  Magnitudes and magnitude errors are  *)
(* in units of 0.05 mag.                                                   *)
(***************************************************************************)
\* 0.76 arcsec per pixel (line 173)
PixScale == 76
\* the magnitude cut 22 (lines 161-164), i.e. 22 / 0.05
MagLimit == 440
\* 2.5 / ln(10) = 1.0857 mag, i.e. 22 units of 0.05 mag (line 132)
MagErrScale == 22
\* -2.5 mag per decade of flux, i.e. 50 units of 0.05 mag (line 131)
MagPerDecade == 50
\* the cuts of lines 134-136
AperExcessMax == 250
SNMin == 10
\* the start of the fit [1, -2] (line 178), -2 mag = -40 units
X0 == <<1, 0 - 40>>
\* 'zeropercent' (line 93)
ZeroPercent == 30
\* 3631 Jy (line 192)
ABFlux == 3631

\* rows of the source extractor catalog
MaxSeo == 2
\* rows of the guide star catalog response
MaxCat == 3

SeoRow(ra, dec, auto, err, aper) ==
    [ALPHA_J2000 |-> ra, DELTA_J2000 |-> dec, FLUX_AUTO |-> auto,
     FLUXERR_AUTO |-> err, FLUX_APER |-> aper]

SeoPool ==
    << SeoRow(76, 0, 100, 20, 100),       \* S/N 5: rejected
       SeoRow(0, 0, 100, 5, 100),         \* star, S/N 20
       SeoRow(40, 60, 1000, 95, 1300),    \* FLUX_APER - FLUX_AUTO = 300: rejected
       SeoRow(100, 0, 1000, 95, 1000) >>  \* star, S/N 10.5

SeoCatalogs == SubCatalogs(SeoPool, MaxSeo)

CatRow(ra, dec, mag, magerr) == [ra |-> ra, dec |-> dec, mag |-> mag, magerr |-> magerr]

CatPool ==
    << CatRow(0, 0, 440, 3),        \* magnitude 22: not usable
       CatRow(40, 60, 100, 2),      \* 72.1 from (0,0), 84.9 from (100,0)
       CatRow(100, 0, 0, 4),        \* magnitude 0: not observed
       CatRow(76, 0, 200, 1),       \* 76 from (0,0), 24 from (100,0)
       CatRow(0, 200, 300, 0),      \* far from every source
       CatRow(100, 10, 150, 3) >>   \* 10 from (100,0)

QueryTables == SubCatalogs(CatPool, MaxCat)

FcImages == { <<Num(4), Num(1), Num(7), Num(2)>>, <<NaN, Num(2), Num(6)>> }

Binnings == {1, 2}

\* the parameter values scipy.optimize.minimize may return
FitGrid == {<<m, b>> : m \in 0..2, b \in {0 - 40} \cup {0 - 50 * j : j \in 0..8}}

(***************************************************************************)
(* StepFluxCalSex: state                                                   *)
(***************************************************************************)
VARIABLES
    fc_pc,            \* position in StepFluxCalSex.run
    binning,          \* self.datain.getheadval('XBIN')
    delete_cat,       \* self.getarg('delete_cat')
    sex_process,      \* the source extractor subprocess
    cat_file,         \* whether the file catfilename exists
    gsc2_request,     \* the HTTP request to the guide star catalog service
    seo_catalog,      \* the LDAC_OBJECTS table written by source extractor
    seo_Mag, seo_MagErr,
    fc_seo_SN,        \* seo_SN of StepFluxCalSex.run
    query_table,
    GSC_RA, GSC_DEC, GSC_Mag, GSC_MagErr,
    idx, d2d,
    fit_call,         \* the arguments of scipy.optimize.minimize
    m_ml, b_ml,
    datain_image,     \* self.datain.image when run starts
    fc_dataout        \* the output data object of StepFluxCalSex

fc_vars == <<fc_pc, binning, delete_cat, sex_process, cat_file, gsc2_request,
             seo_catalog, seo_Mag, seo_MagErr, fc_seo_SN,
             query_table, GSC_RA, GSC_DEC, GSC_Mag, GSC_MagErr, idx, d2d,
             fit_call, m_ml, b_ml, datain_image, fc_dataout>>

NoCall == [x0 |-> << >>, x |-> << >>, data |-> << >>, errors2 |-> << >>]

FcNoData == [produced |-> FALSE, PHOTZP |-> Unset, PHOTZPER |-> Unset, image |-> << >>]

FcIdle ==
    /\ sex_process = "none" /\ cat_file = FALSE /\ gsc2_request = "none"
    /\ seo_Mag = << >> /\ seo_MagErr = << >> /\ fc_seo_SN = << >>
    /\ query_table = << >>
    /\ GSC_RA = << >> /\ GSC_DEC = << >> /\ GSC_Mag = << >> /\ GSC_MagErr = << >>
    /\ idx = << >> /\ d2d = << >>
    /\ fit_call = NoCall
    /\ m_ml = 0 /\ b_ml = 0
    /\ fc_dataout = FcNoData

(***************************************************************************)
(* StepAstrometry: inputs and state                                        *)
(*                                                                         *)
(* Times are whole seconds; time.time() is counted from the start of run.  *)
(***************************************************************************)
\* longest 'downsample' list and longest 'paramoptions' list
MaxDownsamples == 2
MaxParamoptions == 2

DownsamplePool == <<2, 4, 8>>
ParamoptionPool == <<"--guess-scale", "--scale-low 0.5 --scale-high 2.0", "--no-plots">>

DownsampleLists == SubCatalogs(DownsamplePool, MaxDownsamples)
ParamoptionLists == SubCatalogs(ParamoptionPool, MaxParamoptions)

\* values of 'timeout' tried, in seconds
TimeoutValues == {1, 2}

\* what the astrometry command may exit with
ExitCodes == {0, 1}
\* the return code of a child ended by SIGKILL
SigKilled == 0 - 9
\* the constant of the history message (line 160)
HistOffset == 300

\* Python's None
PyNone == [k |-> "None", v |-> 0]

VARIABLES
    as_pc,            \* position in StepAstrometry.run
    downsamples,      \* self.getarg('downsample')
    paramoptions,     \* self.getarg('paramoptions')
    timeout_arg,      \* self.getarg('timeout')
    delete_temp,      \* self.getarg('delete_temp')
    option,           \* the loop variable of line 112
    as_process,       \* the subprocess of the current attempt
    poll,             \* the last value of process.poll()
    now,              \* time.time()
    timeout,          \* the deadline of line 124
    new_file,         \* whether the file outnewname exists
    wcs_file,         \* whether the file outwcsname exists
    attempts,         \* the attempts started so far, in order, and whether
                      \* line 133 found them valid
    as_error,         \* the exception that ended run, if any
    as_dataout        \* the output data object of StepAstrometry

as_vars == <<as_pc, downsamples, paramoptions, timeout_arg, delete_temp, option,
             as_process, poll, now, timeout, new_file, wcs_file, attempts,
             as_error, as_dataout>>

NoProcess == [state |-> "none", returncode |-> PyNone]

AsNoData == [loaded |-> FALSE, downsample |-> 0, took |-> 0]

AsIdle ==
    /\ option = 0
    /\ as_process = NoProcess
    /\ poll = PyNone
    /\ now = 0 /\ timeout = 0
    /\ new_file = FALSE /\ wcs_file = FALSE
    /\ attempts = << >>
    /\ as_error = "none"
    /\ as_dataout = AsNoData

AsAtRest ==
    /\ as_pc = "idle" /\ downsamples = << >> /\ paramoptions = << >>
    /\ timeout_arg = 0 /\ delete_temp = FALSE
    /\ AsIdle

SxAtRest ==
    /\ sx_pc = "idle" /\ psimage = << >> /\ extract_thresh = 0
    /\ sourcetable = FALSE
    /\ SxIdle

FcAtRest ==
    /\ fc_pc = "idle" /\ binning = 0 /\ delete_cat = FALSE
    /\ seo_catalog = << >> /\ datain_image = << >>
    /\ FcIdle

(***************************************************************************)
(* StepSrcExtPy.run, one action per stage                                  *)
(***************************************************************************)
SxInit ==
    /\ sx_pc = "extract"
    /\ psimage \in Images
    /\ extract_thresh \in ExtractThreshValues
    /\ sourcetable \in BOOLEAN
    /\ SxIdle
    /\ FcAtRest
    /\ AsAtRest

\* lines 142-143: the two sep.extract calls
SxExtract ==
    /\ sx_pc = "extract"
    /\ sources' = SepExtract(psimage, extract_thresh, deblend_nthresh)
    /\ sourcesb' = SepExtract(psimage, extract_thresh * bright_factor, SepDeblendDefault)
    /\ sx_pc' = "sortiso"
    /\ UNCHANGED <<fc_vars, as_vars>>
    /\ UNCHANGED <<sx_export, psimage, extract_thresh, objects, objectsb, flux_elip,
                   fluxerr_elip, rh, flux_elipb, fluxerr_elipb, rhb, seo_SN,
                   seo_SNB, rhmean, rhstd, elmean, sources_table, sourceb_table,
                   dataout>>

\* lines 145-154: sort the source records by descending isophotal flux
SxSortIso ==
    /\ sx_pc = "sortiso"
    /\ \E ind \in Argsorts([i \in 1..Len(sources) |-> Num(sources[i].flux)]),
          indb \in Argsorts([i \in 1..Len(sourcesb) |-> Num(sourcesb[i].flux)]) :
          /\ objects' = TakeAlong(sources, Reverse(ind))
          /\ objectsb' = TakeAlong(sourcesb, Reverse(indb))
    /\ sx_pc' = "measure"
    /\ UNCHANGED <<fc_vars, as_vars>>
    /\ UNCHANGED <<sx_export, psimage, extract_thresh, sources, sourcesb, flux_elip,
                   fluxerr_elip, rh, flux_elipb, fluxerr_elipb, rhb, seo_SN,
                   seo_SNB, rhmean, rhstd, elmean, sources_table, sourceb_table,
                   dataout>>

\* lines 163-193: Kron radius, elliptical flux and half-flux radius
SxMeasure ==
    /\ sx_pc = "measure"
    /\ flux_elip' = SepSumEllipseFlux(psimage, objects)
    /\ fluxerr_elip' = SepSumEllipseErr(psimage, objects)
    /\ flux_elipb' = SepSumEllipseFlux(psimage, objectsb)
    /\ fluxerr_elipb' = SepSumEllipseErr(psimage, objectsb)
    /\ rh' = SepFluxRadius(psimage, objects)
    /\ rhb' = SepFluxRadius(psimage, objectsb)
    /\ sx_pc' = "sortelip"
    /\ UNCHANGED <<fc_vars, as_vars>>
    /\ UNCHANGED <<sx_export, psimage, extract_thresh, sources, sourcesb, objects, objectsb,
                   seo_SN, seo_SNB, rhmean, rhstd, elmean, sources_table,
                   sourceb_table, dataout>>

\* lines 196-216: sort every array by descending elliptical flux
SxSortElip ==
    /\ sx_pc = "sortelip"
    /\ \E indb \in Argsorts(flux_elipb), ind \in Argsorts(flux_elip) :
          LET rev_indb == Reverse(indb)
              rev_ind == Reverse(ind)
          IN /\ flux_elipb' = TakeAlong(flux_elipb, rev_indb)
             /\ fluxerr_elipb' = TakeAlong(fluxerr_elipb, rev_indb)
             /\ objectsb' = TakeAlong(objectsb, rev_indb)
             /\ rhb' = TakeAlong(rhb, rev_indb)
             /\ flux_elip' = TakeAlong(flux_elip, rev_ind)
             /\ fluxerr_elip' = TakeAlong(fluxerr_elip, rev_ind)
             /\ objects' = TakeAlong(objects, rev_ind)
             /\ rh' = TakeAlong(rh, rev_ind)
    /\ sx_pc' = "select"
    /\ UNCHANGED <<fc_vars, as_vars>>
    /\ UNCHANGED <<sx_export, psimage, extract_thresh, sources, sourcesb, seo_SN, seo_SNB,
                   rhmean, rhstd, elmean, sources_table, sourceb_table, dataout>>

\* lines 219-236: the acceptance masks and the summary statistics
SxSelect ==
    /\ sx_pc = "select"
    /\ seo_SN' = AcceptMask(objects, flux_elip, fluxerr_elip)
    /\ seo_SNB' = AcceptMask(objectsb, flux_elipb, fluxerr_elipb)
    /\ rhmean' = NanMean(MaskSelect(rh, seo_SN'))
    /\ rhstd' = MadStd(MaskSelect(rh, seo_SN'))
    /\ elmean' = ElMean(MaskSelect(objects, seo_SN'))
    /\ sx_pc' = "table"
    /\ UNCHANGED <<fc_vars, as_vars>>
    /\ UNCHANGED <<sx_export, psimage, extract_thresh, sources, sourcesb, objects, objectsb,
                   flux_elip, fluxerr_elip, rh, flux_elipb, fluxerr_elipb, rhb,
                   sources_table, sourceb_table, dataout>>

\* lines 239-288: the columns and the two binary tables
SxMakeTables ==
    /\ sx_pc = "table"
    /\ sources_table' = MakeCols(objects, flux_elip, fluxerr_elip, rh, seo_SN)
    /\ sourceb_table' = MakeCols(objectsb, flux_elipb, fluxerr_elipb, rhb, seo_SNB)
    /\ sx_pc' = "output"
    /\ UNCHANGED <<fc_vars, as_vars>>
    /\ UNCHANGED <<sx_export, psimage, extract_thresh, sources, sourcesb, objects, objectsb,
                   flux_elip, fluxerr_elip, rh, flux_elipb, fluxerr_elipb, rhb,
                   seo_SN, seo_SNB, rhmean, rhstd, elmean, dataout>>

\* lines 291-300: header values and tables of the output data object.
\* self.dataout.setheadval stores into a FITS header, whose cards cannot hold
\* a NaN: the header library either writes the value or refuses it with a
\* ValueError (nanAllowed), which ends run at the first NaN keyword.
SxOutput ==
    /\ sx_pc = "output"
    /\ \E nanAllowed \in BOOLEAN :
          IF nanAllowed \/ (rhmean.k # "nan" /\ rhstd.k # "nan" /\ elmean.k # "nan")
          THEN /\ dataout' = [produced |-> TRUE, RHALF |-> rhmean, RHALFSTD |-> rhstd,
                              ELONG |-> elmean, low |-> sources_table,
                              high |-> sourceb_table, tables |-> TRUE,
                              EXTRACT_THRESH |-> extract_thresh,
                              BRIGHT_FACTOR |-> bright_factor]
               /\ sx_pc' = "export"
          ELSE /\ dataout' = dataout
               /\ sx_pc' = "raised"
    /\ UNCHANGED <<fc_vars, as_vars>>
    /\ UNCHANGED <<sx_export, psimage, extract_thresh, sources, sourcesb, objects, objectsb,
                   flux_elip, fluxerr_elip, rh, flux_elipb, fluxerr_elipb, rhb,
                   seo_SN, seo_SNB, rhmean, rhstd, elmean, sources_table,
                   sourceb_table>>

\* lines 302-321: the region file and the text table, if 'sourcetable' is set
SxExport ==
    /\ sx_pc = "export"
    /\ IF sourcetable
       THEN /\ reg_file' = [written |-> TRUE,
                            content |-> RegionLines(objects, seo_SN, sources_table.ID)]
            /\ txt_file' = [written |-> TRUE, content |-> dataout.low]
       ELSE UNCHANGED <<reg_file, txt_file>>
    /\ sx_pc' = "done"
    /\ UNCHANGED <<fc_vars, as_vars>>
    /\ UNCHANGED <<sourcetable, psimage, extract_thresh, sources, sourcesb, objects,
                   objectsb, flux_elip, fluxerr_elip, rh, flux_elipb, fluxerr_elipb,
                   rhb, seo_SN, seo_SNB, rhmean, rhstd, elmean, sources_table,
                   sourceb_table, dataout>>

SxNext ==
    \/ SxExtract
    \/ SxSortIso
    \/ SxMeasure
    \/ SxSortElip
    \/ SxSelect
    \/ SxMakeTables
    \/ SxOutput
    \/ SxExport


(***************************************************************************)
(* StepFluxCalSex: the catalogs                                            *)
(***************************************************************************)
Log10(f) == CASE f = 1 -> 0 [] f = 10 -> 1 [] f = 100 -> 2 [] f = 1000 -> 3

\* seo_Mag = -2.5*np.log10(seo_catalog['FLUX_AUTO'])
SeoMag(cat) == [i \in 1..Len(cat) |-> 0 - MagPerDecade * Log10(cat[i].FLUX_AUTO)]

\* seo_MagErr = 2.5/np.log(10)*FLUXERR_AUTO/FLUX_AUTO, rounded down to the unit
SeoMagErr(cat) ==
    [i \in 1..Len(cat) |-> (MagErrScale * cat[i].FLUXERR_AUTO) \div cat[i].FLUX_AUTO]

\* lines 134-136: elongation, S/N > 10 and S/N < 1000
SeoSN(cat) ==
    [i \in 1..Len(cat) |->
        /\ RatioGT(Num(cat[i].FLUX_AUTO), Num(cat[i].FLUXERR_AUTO), SNMin, 1)
        /\ cat[i].FLUX_APER - cat[i].FLUX_AUTO < AperExcessMax
        /\ RatioLT(Num(cat[i].FLUX_AUTO), Num(cat[i].FLUXERR_AUTO), SNMax, 1)]

\* (query_table[table_filter]<22) & (query_table[table_filter]>0)
MagMask(tbl) == [k \in 1..Len(tbl) |-> tbl[k].mag < MagLimit /\ tbl[k].mag > 0]
MagMaskFaintOnly(tbl) == [k \in 1..Len(tbl) |-> tbl[k].mag < MagLimit]

\* lines 161-164: the four filtered columns
GscRa(tbl) == MaskSelect(Column(tbl, "ra"), MagMask(tbl))
GscDec(tbl) == MaskSelect(Column(tbl, "dec"), MagMask(tbl))
GscMag(tbl) == MaskSelect(Column(tbl, "mag"), MagMask(tbl))
GscMagErrFaintOnly(tbl) == MaskSelect(Column(tbl, "magerr"), MagMaskFaintOnly(tbl))
GscMagErr(tbl) == MaskSelect(Column(tbl, "magerr"), MagMask(tbl))

(***************************************************************************)
(* StepFluxCalSex: the cross-match                                         *)
(***************************************************************************)
\* the square of the separation of two sky positions
Sep2(ra1, dec1, ra2, dec2) == (ra1 - ra2) * (ra1 - ra2) + (dec1 - dec2) * (dec1 - dec2)

\* seo_catalog[seo_SN] as SkyCoord
AcceptedCoords(cat, mask) == MaskSelect(cat, mask)

\* the square of the separation of catalog entry k and accepted source j
\* (PairSep2AllSources: of catalog entry k and row j of the whole catalog)
PairSep2AllSources(k, j) ==
    Sep2(GSC_RA[k], GSC_DEC[k], seo_catalog[j].ALPHA_J2000, seo_catalog[j].DELTA_J2000)
PairSep2(k, j) ==
    LET acc == AcceptedCoords(seo_catalog, fc_seo_SN)
    IN Sep2(GSC_RA[k], GSC_DEC[k], acc[j].ALPHA_J2000, acc[j].DELTA_J2000)

\* GSC_catalog.match_to_catalog_sky(seo_catalog[seo_SN]): for every catalog
\* entry the index of a nearest accepted source; equally near sources are
\* resolved by the search tree, in any way
Nearest(k) ==
    LET n == Len(AcceptedCoords(seo_catalog, fc_seo_SN))
    IN {j \in 1..n : \A j2 \in 1..n : PairSep2(k, j) <= PairSep2(k, j2)}

MatchIdx == {f \in [1..Len(GSC_RA) -> 1..Len(AcceptedCoords(seo_catalog, fc_seo_SN))] :
                \A k \in 1..Len(GSC_RA) : f[k] \in Nearest(k)}

\* dist_value = 1*0.76*binning/3600.
DistValue(bin) == 1 * PixScale * bin

\* d2d.value < dist_value
WithinDistOrEqual(d, bin) == [k \in 1..Len(d) |-> d[k] <= DistValue(bin) * DistValue(bin)]
WithinDist(d, bin) == [k \in 1..Len(d) |-> d[k] < DistValue(bin) * DistValue(bin)]

(***************************************************************************)
(* StepFluxCalSex: the fit                                                 *)
(***************************************************************************)
\* eps_data**2 = GSC_MagErr[...]**2 + seo_MagErr[seo_SN][idx][...]**2
EpsData2(gscErr, seoErr) ==
    [i \in 1..Len(gscErr) |-> gscErr[i] * gscErr[i] + seoErr[i] * seoErr[i]]

\* the common denominator of the weights 1/errors**2
WeightDen(errors2) == ProdSeq(errors2)

\* residual(params, x, data, errors), lines 200-206, as the integer
\* 2 * WeightDen(errors2) * residual: minus the sum of
\* (data - model)**2 * inv_sigma2 with model = m*x + c
ResidualSwapped(params, x, data, errors2) ==
    LET den == WeightDen(errors2)
        r(i) == x[i] - (params[1] * data[i] + params[2])
    IN 0 - SumSeq([i \in 1..Len(x) |-> r(i) * r(i) * (den \div errors2[i])])
Residual(params, x, data, errors2) ==
    LET den == WeightDen(errors2)
        r(i) == data[i] - (params[1] * x[i] + params[2])
    IN 0 - SumSeq([i \in 1..Len(x) |-> r(i) * r(i) * (den \div errors2[i])])

\* nll = lambda *args: -residual(*args)
Nll(params, x, data, errors2) == 0 - Residual(params, x, data, errors2)

\* scipy.optimize.minimize(nll, x0, args): x0 when it is already a minimum,
\* otherwise a point that minimises nll
Minimize(call) ==
    LET val == [p \in FitGrid |-> Nll(p, call.x, call.data, call.errors2)]
        best == {p \in FitGrid : \A q \in FitGrid : val[p] <= val[q]}
    IN IF call.x0 \in best THEN {call.x0} ELSE best

(***************************************************************************)
(* StepFluxCalSex: the rescaled image                                      *)
(***************************************************************************)
\* the sorted non-NaN values of an image
SortedFinite(img) ==
    LET f == Finite(img)
        n == Len(f)
        p == CHOOSE q \in Perms(n) : \A i, j \in 1..n : i < j => f[q[i]] <= f[q[j]]
    IN [i \in 1..n |-> f[p[i]]]

\* np.nanpercentile(image, q) times 100, by linear interpolation between the
\* two nearest ranks
NanPercentile100(img, q) ==
    LET s == SortedFinite(img)
        pos == q * (Len(s) - 1)
        lo == pos \div 100
        f == pos % 100
    IN IF f = 0 THEN 100 * s[lo + 1]
       ELSE (100 - f) * s[lo + 1] + f * s[lo + 2]

\* bscale * (image - bzero) with bscale = 3631. * 10 ** (b_ml/2.5): the pixel
\* value is  mant / 100 * 10 ** (exp50 / 50)
\* (RescaleUnparenthesised: bscale * image - bzero)
RescaleUnparenthesised(img, b, bzero100) ==
    [i \in 1..Len(img) |->
        IF IsNaN(img[i]) THEN [k |-> "nan", mant |-> 0, exp50 |-> 0]
        ELSE [k |-> "num", mant |-> ABFlux * 100 * img[i].v - bzero100, exp50 |-> b]]
Rescale(img, b, bzero100) ==
    [i \in 1..Len(img) |->
        IF IsNaN(img[i]) THEN [k |-> "nan", mant |-> 0, exp50 |-> 0]
        ELSE [k |-> "num", mant |-> ABFlux * (100 * img[i].v - bzero100), exp50 |-> b]]

(***************************************************************************)
(* StepFluxCalSex.run, one action per stage                                *)
(***************************************************************************)
FcInit ==
    /\ fc_pc = "popen"
    /\ binning \in Binnings
    /\ delete_cat \in BOOLEAN
    /\ seo_catalog \in SeoCatalogs
    /\ datain_image \in FcImages
    /\ FcIdle
    /\ SxAtRest
    /\ AsAtRest

\* lines 122-123: start source extractor
FcPopen ==
    /\ fc_pc = "popen"
    /\ sex_process' = "running"
    /\ fc_pc' = "communicate"
    /\ UNCHANGED <<sx_vars, as_vars>>
    /\ UNCHANGED <<binning, delete_cat, cat_file, gsc2_request, seo_catalog, seo_Mag,
                   seo_MagErr, fc_seo_SN, query_table, GSC_RA, GSC_DEC, GSC_Mag,
                   GSC_MagErr, idx, d2d, fit_call, m_ml, b_ml, datain_image,
                   fc_dataout>>

\* the source extractor process ends, having written its catalog file or not
SexExits ==
    /\ sex_process = "running"
    /\ sex_process' = "exited"
    /\ cat_file' \in BOOLEAN
    /\ UNCHANGED <<sx_vars, as_vars>>
    /\ UNCHANGED <<fc_pc, binning, delete_cat, gsc2_request, seo_catalog, seo_Mag,
                   seo_MagErr, fc_seo_SN, query_table, GSC_RA, GSC_DEC, GSC_Mag,
                   GSC_MagErr, idx, d2d, fit_call, m_ml, b_ml, datain_image,
                   fc_dataout>>

\* line 124: process.communicate() returns when the process has ended
FcCommunicate ==
    /\ fc_pc = "communicate"
    /\ sex_process = "exited"
    /\ fc_pc' = "readcat"
    /\ UNCHANGED <<sx_vars, as_vars>>
    /\ UNCHANGED <<binning, delete_cat, sex_process, cat_file, gsc2_request,
                   seo_catalog, seo_Mag, seo_MagErr, fc_seo_SN, query_table, GSC_RA,
                   GSC_DEC, GSC_Mag, GSC_MagErr, idx, d2d, fit_call, m_ml, b_ml,
                   datain_image, fc_dataout>>

\* lines 130-140: read the source extractor catalog (Table.read raises when
\* the file is not there) and delete it if 'delete_cat' is set
FcReadCatalog ==
    /\ fc_pc = "readcat"
    /\ IF cat_file
       THEN /\ seo_Mag' = SeoMag(seo_catalog)
            /\ seo_MagErr' = SeoMagErr(seo_catalog)
            /\ fc_seo_SN' = SeoSN(seo_catalog)
            /\ cat_file' = IF delete_cat THEN FALSE ELSE cat_file
            /\ fc_pc' = "get"
       ELSE /\ fc_pc' = "raised"
            /\ UNCHANGED <<seo_Mag, seo_MagErr, fc_seo_SN, cat_file>>
    /\ UNCHANGED <<sx_vars, as_vars>>
    /\ UNCHANGED <<binning, delete_cat, sex_process, gsc2_request, seo_catalog,
                   query_table, GSC_RA, GSC_DEC, GSC_Mag, GSC_MagErr, idx, d2d,
                   fit_call, m_ml, b_ml, datain_image, fc_dataout>>

\* lines 143-155: requests.get(gsc2_query) sends the request
FcGet ==
    /\ fc_pc = "get"
    /\ gsc2_request' = "pending"
    /\ fc_pc' = "query"
    /\ UNCHANGED <<sx_vars, as_vars>>
    /\ UNCHANGED <<binning, delete_cat, sex_process, cat_file, seo_catalog, seo_Mag,
                   seo_MagErr, fc_seo_SN, query_table, GSC_RA, GSC_DEC, GSC_Mag,
                   GSC_MagErr, idx, d2d, fit_call, m_ml, b_ml, datain_image,
                   fc_dataout>>

\* the catalog service answers, or the connection fails
GscResponds ==
    /\ gsc2_request = "pending"
    /\ gsc2_request' \in {"answered", "failed"}
    /\ UNCHANGED <<sx_vars, as_vars>>
    /\ UNCHANGED <<fc_pc, binning, delete_cat, sex_process, cat_file, seo_catalog,
                   seo_Mag, seo_MagErr, fc_seo_SN, query_table, GSC_RA, GSC_DEC,
                   GSC_Mag, GSC_MagErr, idx, d2d, fit_call, m_ml, b_ml, datain_image,
                   fc_dataout>>

\* lines 155-165: requests.get returns the guide star catalog response (or
\* raises a ConnectionError); the usable rows of the response
FcQuery ==
    /\ fc_pc = "query"
    /\ gsc2_request \in {"answered", "failed"}
    /\ IF gsc2_request = "answered"
       THEN /\ \E tbl \in QueryTables :
                  /\ query_table' = tbl
                  /\ GSC_RA' = GscRa(tbl)
                  /\ GSC_DEC' = GscDec(tbl)
                  /\ GSC_Mag' = GscMag(tbl)
                  /\ GSC_MagErr' = GscMagErr(tbl)
            /\ fc_pc' = "match"
       ELSE /\ fc_pc' = "raised"
            /\ UNCHANGED <<query_table, GSC_RA, GSC_DEC, GSC_Mag, GSC_MagErr>>
    /\ UNCHANGED <<sx_vars, as_vars>>
    /\ UNCHANGED <<binning, delete_cat, sex_process, cat_file, gsc2_request,
                   seo_catalog, seo_Mag, seo_MagErr, fc_seo_SN, idx, d2d, fit_call,
                   m_ml, b_ml, datain_image, fc_dataout>>

\* lines 168-170: match every catalog entry to its nearest accepted source;
\* match_to_catalog_sky raises a ValueError on an empty source list
FcMatch ==
    /\ fc_pc = "match"
    /\ IF Len(AcceptedCoords(seo_catalog, fc_seo_SN)) = 0
       THEN /\ fc_pc' = "raised"
            /\ UNCHANGED <<idx, d2d>>
       ELSE /\ \E f \in MatchIdx :
                  /\ idx' = f
                  /\ d2d' = [k \in 1..Len(GSC_RA) |-> PairSep2(k, f[k])]
            /\ fc_pc' = "fit"
    /\ UNCHANGED <<sx_vars, as_vars>>
    /\ UNCHANGED <<binning, delete_cat, sex_process, cat_file, gsc2_request,
                   seo_catalog, seo_Mag, seo_MagErr, fc_seo_SN, query_table,
                   GSC_RA, GSC_DEC, GSC_Mag, GSC_MagErr, fit_call, m_ml, b_ml,
                   datain_image, fc_dataout>>

\* lines 173-179: the pairs below dist_value go to the fit
FcFit ==
    /\ fc_pc = "fit"
    /\ LET mask == WithinDist(d2d, binning)
           call == [x0 |-> X0,
                    x |-> MaskSelect(GSC_Mag, mask),
                    data |-> MaskSelect(TakeAlong(MaskSelect(seo_Mag, fc_seo_SN), idx), mask),
                    errors2 |->
                        EpsData2(MaskSelect(GSC_MagErr, mask),
                                 MaskSelect(TakeAlong(MaskSelect(seo_MagErr, fc_seo_SN), idx),
                                            mask))]
       IN /\ fit_call' = call
          /\ \E res \in Minimize(call) :
                /\ m_ml' = res[1]
                /\ b_ml' = res[2]
    /\ fc_pc' = "output"
    /\ UNCHANGED <<sx_vars, as_vars>>
    /\ UNCHANGED <<binning, delete_cat, sex_process, cat_file, gsc2_request,
                   seo_catalog, seo_Mag, seo_MagErr, fc_seo_SN, query_table,
                   GSC_RA, GSC_DEC, GSC_Mag, GSC_MagErr, idx, d2d, datain_image,
                   fc_dataout>>

\* lines 183-193: PHOTZP and the rescaled image
FcOutput ==
    /\ fc_pc = "output"
    /\ LET bzero100 == NanPercentile100(datain_image, ZeroPercent)
       IN fc_dataout' = [produced |-> TRUE,
                         PHOTZP |-> Num(0 - b_ml),
                         PHOTZPER |-> Num(0),
                         image |-> Rescale(datain_image, b_ml, bzero100)]
    /\ fc_pc' = "done"
    /\ UNCHANGED <<sx_vars, as_vars>>
    /\ UNCHANGED <<binning, delete_cat, sex_process, cat_file, gsc2_request,
                   seo_catalog, seo_Mag, seo_MagErr, fc_seo_SN, query_table,
                   GSC_RA, GSC_DEC, GSC_Mag, GSC_MagErr, idx, d2d, fit_call, m_ml,
                   b_ml, datain_image>>

\* the steps of run itself
FcRun ==
    \/ FcPopen
    \/ FcCommunicate
    \/ FcReadCatalog
    \/ FcGet
    \/ FcQuery
    \/ FcMatch
    \/ FcFit
    \/ FcOutput

\* run and the two things it waits for
FcNext ==
    \/ FcRun
    \/ SexExits
    \/ GscResponds

(***************************************************************************)
(* StepAstrometry.run                                                      *)
(***************************************************************************)
\* downsample = downsamples[option%len(downsamples)]
\* (DownsampleSlowest: the downsample factor changes last)
DownsampleSlowest(ds, ps, opt) == ds[(opt \div Len(ps)) + 1]
DownsampleOf(ds, ps, opt) == ds[(opt % Len(ds)) + 1]

\* paramoption = paramoptions[option//len(downsamples)]
ParamoptionOf(ds, ps, opt) == ps[(opt \div Len(ds)) + 1]

\* process.poll(): the return code of a process that has ended, else None
ProcessPoll(p) == IF p.state = "exited" THEN p.returncode ELSE PyNone

\* poll == 0 and os.path.exists(outnewname)
AttemptValid(code, exists) == code = Num(0) /\ exists

AsInit ==
    /\ as_pc = "loop"
    /\ downsamples \in DownsampleLists
    /\ paramoptions \in ParamoptionLists
    /\ timeout_arg \in TimeoutValues
    /\ delete_temp \in BOOLEAN
    /\ AsIdle
    /\ SxAtRest
    /\ FcAtRest

\* lines 112-124: the next combination, its process and its deadline
AsPopen ==
    /\ as_pc = "loop"
    /\ option < Len(downsamples) * Len(paramoptions)
    /\ as_process' = [state |-> "running", returncode |-> PyNone]
    /\ timeout' = now + timeout_arg
    /\ attempts' = Append(attempts,
                          [downsample |-> DownsampleOf(downsamples, paramoptions, option),
                           paramoption |-> ParamoptionOf(downsamples, paramoptions, option),
                           valid |-> FALSE])
    /\ as_pc' = "wait"
    /\ UNCHANGED <<sx_vars, fc_vars>>
    /\ UNCHANGED <<downsamples, paramoptions, timeout_arg, delete_temp, option, poll,
                   now, new_file, wcs_file, as_error, as_dataout>>

\* line 112: no combination is left
AsLoopExhausted ==
    /\ as_pc = "loop"
    /\ option >= Len(downsamples) * Len(paramoptions)
    /\ as_pc' = "post"
    /\ UNCHANGED <<sx_vars, fc_vars>>
    /\ UNCHANGED <<downsamples, paramoptions, timeout_arg, delete_temp, option,
                   as_process, poll, now, timeout, new_file, wcs_file, attempts,
                   as_error, as_dataout>>

\* the astrometry command writes its .new file, with or without the .wcs file
AstrometryWrites ==
    /\ as_process.state = "running"
    /\ \E w \in BOOLEAN :
          /\ new_file' = TRUE
          /\ wcs_file' = (wcs_file \/ w)
          /\ (~new_file \/ wcs_file' # wcs_file)
    /\ UNCHANGED <<sx_vars, fc_vars>>
    /\ UNCHANGED <<as_pc, downsamples, paramoptions, timeout_arg, delete_temp, option,
                   as_process, poll, now, timeout, attempts, as_error, as_dataout>>

\* the astrometry command ends by itself
AstrometryExits ==
    /\ as_process.state = "running"
    /\ \E code \in ExitCodes :
          as_process' = [state |-> "exited", returncode |-> Num(code)]
    /\ UNCHANGED <<sx_vars, fc_vars>>
    /\ UNCHANGED <<as_pc, downsamples, paramoptions, timeout_arg, delete_temp, option,
                   poll, now, timeout, new_file, wcs_file, attempts, as_error,
                   as_dataout>>

\* lines 125-126: one turn of the waiting loop
AsWait ==
    /\ as_pc = "wait"
    /\ IF now < timeout /\ ProcessPoll(as_process) = PyNone
       THEN /\ now' = now + 1
            /\ as_pc' = "wait"
       ELSE /\ now' = now
            /\ as_pc' = "poll"
    /\ UNCHANGED <<sx_vars, fc_vars>>
    /\ UNCHANGED <<downsamples, paramoptions, timeout_arg, delete_temp, option,
                   as_process, poll, timeout, new_file, wcs_file, attempts, as_error,
                   as_dataout>>

\* lines 127-130: poll, and kill the process if it has not ended
AsPoll ==
    /\ as_pc = "poll"
    /\ poll' = ProcessPoll(as_process)
    /\ IF poll' = PyNone
       THEN /\ as_process' = [state |-> "killed", returncode |-> PyNone]
            /\ now' = now + 1
       ELSE UNCHANGED <<as_process, now>>
    /\ as_pc' = "repoll"
    /\ UNCHANGED <<sx_vars, fc_vars>>
    /\ UNCHANGED <<downsamples, paramoptions, timeout_arg, delete_temp, option,
                   timeout, new_file, wcs_file, attempts, as_error, as_dataout>>

\* lines 131-137: poll again, log the return code ('%d' % poll raises a
\* TypeError for None) and leave the loop or go on.  A killed process has
\* been reaped by now, or it has not.
AsRepoll ==
    /\ as_pc = "repoll"
    /\ \E reaped \in BOOLEAN :
          /\ as_process' =
                IF as_process.state = "killed" /\ reaped
                THEN [state |-> "exited", returncode |-> Num(SigKilled)]
                ELSE as_process
          /\ (as_process.state # "killed" => reaped)
    /\ poll' = ProcessPoll(as_process')
    /\ attempts' = [attempts EXCEPT ![Len(attempts)].valid =
                                        AttemptValid(poll', new_file)]
    /\ IF poll' = PyNone
       THEN /\ as_error' = "TypeError"
            /\ as_pc' = "raised"
            /\ option' = option
       ELSE /\ as_error' = as_error
            /\ IF AttemptValid(poll', new_file)
               THEN /\ as_pc' = "post"
                    /\ option' = option
               ELSE /\ as_pc' = "loop"
                    /\ option' = option + 1
    /\ UNCHANGED <<sx_vars, fc_vars>>
    /\ UNCHANGED <<downsamples, paramoptions, timeout_arg, delete_temp, now, timeout,
                   new_file, wcs_file, as_dataout>>

\* lines 149-173: load the .new file (load raises when it is not there) and
\* write the history message
AsPost ==
    /\ as_pc = "post"
    /\ IF new_file
       THEN /\ as_dataout' = [loaded |-> TRUE,
                              downsample |-> attempts[Len(attempts)].downsample,
                              took |-> now - timeout + HistOffset]
            /\ as_error' = as_error
            /\ as_pc' = "delete"
       ELSE /\ as_dataout' = as_dataout
            /\ as_error' = "load"
            /\ as_pc' = "raised"
    /\ UNCHANGED <<sx_vars, fc_vars>>
    /\ UNCHANGED <<downsamples, paramoptions, timeout_arg, delete_temp, option,
                   as_process, poll, now, timeout, new_file, wcs_file, attempts>>

\* lines 174-178: os.remove of the two files (os.remove raises a
\* FileNotFoundError for a file that is not there)
AsDelete ==
    /\ as_pc = "delete"
    /\ IF delete_temp
       THEN /\ new_file' = FALSE
            /\ wcs_file' = FALSE
            /\ IF wcs_file
               THEN as_pc' = "done" /\ as_error' = as_error
               ELSE as_pc' = "raised" /\ as_error' = "FileNotFoundError"
       ELSE /\ as_pc' = "done"
            /\ UNCHANGED <<new_file, wcs_file, as_error>>
    /\ UNCHANGED <<sx_vars, fc_vars>>
    /\ UNCHANGED <<downsamples, paramoptions, timeout_arg, delete_temp, option,
                   as_process, poll, now, timeout, attempts, as_dataout>>

\* the steps of run itself
AsRun ==
    \/ AsPopen
    \/ AsLoopExhausted
    \/ AsWait
    \/ AsPoll
    \/ AsRepoll
    \/ AsPost
    \/ AsDelete

\* run and the astrometry command
AsNext ==
    \/ AsRun
    \/ AstrometryWrites
    \/ AstrometryExits

(***************************************************************************)
(* Specifications: one per pipeline step, the other step at rest           *)
(***************************************************************************)
vars == <<sx_vars, fc_vars, as_vars>>

SpecSrcExt == SxInit /\ [][SxNext]_vars

SpecFluxCal == FcInit /\ [][FcNext]_vars

\* run is scheduled as long as it has a step to take; nothing makes the
\* source extractor end or the catalog service answer
SpecFluxCalFair == SpecFluxCal /\ WF_vars(FcRun)

SpecAstrometry == AsInit /\ [][AsNext]_vars

(***************************************************************************)
(* Properties of StepSrcExtPy.run                                          *)
(***************************************************************************)
SxTablesBuilt == sx_pc \in {"output", "export", "done", "raised"}

SxTables == {sources_table, sourceb_table}

\* the blob a table row was measured on: the one at the row's X
RowBlob(t, i) == psimage[t.X[i]]

\* C1: every row of the low and of the high threshold table belongs to a
\* source with a/b < 1.5, 0 < flux/flux_err < 1000, flux_err != 0 and
\* flux != 0.
C1_RowsPassAllCuts ==
    \A t \in SxTables : \A i \in 1..Len(t.X) :
        LET s == RowBlob(t, i)
        IN /\ ElimDen * s.a < ElimNum * s.b
           /\ RatioLT(s.fe, s.fee, SNMax, 1)
           /\ RatioGT(s.fe, s.fee, 0, 1)
           /\ NotZero(s.fee)
           /\ NotZero(s.fe)

\* C2: both result tables are ordered by descending elliptical flux:
\* flux[i] >= flux[i+1] for consecutive rows.
C2_TablesSortedDescending ==
    \A t \in SxTables : \A i \in 1..(Len(t.Flux) - 1) :
        FloatGE(t.Flux[i], t.Flux[i + 1])

\* a finished run whose low threshold table has rows of different flux, with
\* a NaN flux among the candidates
C2_Witness ==
    /\ sx_pc = "done"
    /\ Len(dataout.low.Flux) >= 2
    /\ dataout.low.Flux[1] # dataout.low.Flux[2]
    /\ \E i \in 1..Len(flux_elip) : IsNaN(flux_elip[i])

\* C3: the ID column of each table is exactly 1, 2, ..., N in row order,
\* N being the number of sources that passed the acceptance filter of that
\* table.
C3_IdsAreOneToN ==
    SxTablesBuilt =>
        /\ sources_table.ID = [i \in 1..CountNonzero(seo_SN) |-> i]
        /\ Len(sources_table.X) = CountNonzero(seo_SN)
        /\ sourceb_table.ID = [i \in 1..CountNonzero(seo_SNB) |-> i]
        /\ Len(sourceb_table.X) = CountNonzero(seo_SNB)

\* a finished run with two accepted and one rejected low threshold source
\* and a non-empty high threshold table
C3_Witness ==
    /\ sx_pc = "done"
    /\ Len(dataout.low.ID) = 2
    /\ Len(objects) = 3
    /\ Len(dataout.high.ID) >= 1

\* C4: when both extraction calls return no sources, run completes without
\* raising, both tables have zero rows, RHALF, RHALFSTD and ELONG are NaN and
\* the output data object is produced.
C4_EmptyExtractionCompletes ==
    (sx_pc \in {"done", "raised"} /\ sources = << >> /\ sourcesb = << >>) =>
        /\ sx_pc = "done"
        /\ dataout.produced
        /\ dataout.tables
        /\ Len(dataout.low.ID) = 0 /\ Len(dataout.high.ID) = 0
        /\ dataout.RHALF.k = "nan"
        /\ dataout.RHALFSTD.k = "nan"
        /\ dataout.ELONG.k = "nan"

\* np.argsort(vals, kind='stable'): equal keys stay in their order
StableArgsorts(vals) ==
    {p \in Argsorts(vals) :
        \A i, j \in 1..Len(vals) :
            (i < j /\ SortLE(vals[p[j]], vals[p[i]])) => p[i] < p[j]}

\* the tables that lines 145-278 make of the extracted sources srcs, the
\* two argsort calls returning what Sorts allows
TablesOf(img, srcs, Sorts(_)) ==
    UNION { LET objs == TakeAlong(srcs, Reverse(ind))
                flux == SepSumEllipseFlux(img, objs)
                err == SepSumEllipseErr(img, objs)
                hr == SepFluxRadius(img, objs)
            IN { LET rev == Reverse(ind2)
                     sobjs == TakeAlong(objs, rev)
                     sflux == TakeAlong(flux, rev)
                     serr == TakeAlong(err, rev)
                 IN MakeCols(sobjs, sflux, serr, TakeAlong(hr, rev),
                             AcceptMask(sobjs, sflux, serr))
                 : ind2 \in Sorts(flux) }
            : ind \in Sorts([i \in 1..Len(srcs) |-> Num(srcs[i].flux)]) }

\* the tables the low threshold path gives at detection threshold thresh
LowPathTables(img, thresh) ==
    TablesOf(img, SepExtract(img, thresh, deblend_nthresh), Argsorts)

\* C15: the high threshold table is what the low threshold path gives when
\* it is run with the threshold raised by the bright factor, every other
\* parameter, the deblending sensitivity included, being the same.
C15_HighIsLowPathAtRaisedThreshold ==
    SxTablesBuilt =>
        sourceb_table \in LowPathTables(psimage, extract_thresh * bright_factor)

\* C16: the row order of both tables is the one a stable sort gives, so
\* that the tables are a function of the input.
C16_RowOrderIsStable ==
    SxTablesBuilt =>
        /\ sources_table \in TablesOf(psimage, sources, StableArgsorts)
        /\ sourceb_table \in TablesOf(psimage, sourcesb, StableArgsorts)

\* C17: with 'sourcetable' set a finished run has written a region file of
\* one circle per row of the low threshold table, the i-th at that row's
\* X and Y and labelled with its ID, and a text table of that table; with
\* the flag not set neither file is ever written.
C17_RegionFileFollowsLowTable ==
    /\ ~sourcetable => (~reg_file.written /\ ~txt_file.written)
    /\ (sx_pc = "done" /\ sourcetable) =>
          /\ reg_file.written
          /\ Len(reg_file.content) = Len(dataout.low.ID)
          /\ \A i \in 1..Len(dataout.low.ID) :
                /\ reg_file.content[i].x = 10000000 * dataout.low.X[i]
                /\ reg_file.content[i].y = 10000000 * dataout.low.Y[i]
                /\ reg_file.content[i].text = dataout.low.ID[i]
          /\ txt_file.written
          /\ txt_file.content = dataout.low

\* a finished run with the flag set, two rows in the low threshold table
\* and a measured source that is not in it
C17_Witness ==
    /\ sx_pc = "done"
    /\ sourcetable
    /\ Len(reg_file.content) = 2
    /\ Len(objects) = 3
    /\ ~seo_SN[1]

\* C20: the X, Y, flux, flux error and half-light radius of a row are those
\* of one detected source, and no source has two rows.
C20_RowValuesOfOneSource ==
    /\ \A i \in 1..Len(sources_table.X) :
          \E j \in 1..Len(sources) : sources[j].x = sources_table.X[i]
    /\ \A i \in 1..Len(sourceb_table.X) :
          \E j \in 1..Len(sourcesb) : sourcesb[j].x = sourceb_table.X[i]
    /\ \A t \in SxTables :
          /\ Len(t.Y) = Len(t.X) /\ Len(t.Flux) = Len(t.X)
          /\ Len(t.Fluxerr) = Len(t.X) /\ Len(t.HalfLight) = Len(t.X)
          /\ \A i \in 1..Len(t.X) :
                /\ t.Y[i] = YOf(t.X[i])
                /\ t.Flux[i] = RowBlob(t, i).fe
                /\ t.Fluxerr[i] = RowBlob(t, i).fee
                /\ t.HalfLight[i] = RowBlob(t, i).hr
          /\ \A i, j \in 1..Len(t.X) : i # j => t.X[i] # t.X[j]

\* a low threshold table of two rows that are not in the order of
\* extraction, with a rejected source measured between them
C20_Witness ==
    /\ sx_pc = "done"
    /\ Len(sources_table.X) = 2
    /\ sources_table.X[1] > sources_table.X[2]
    /\ Len(objects) = 3
    /\ ~seo_SN[2]
    /\ sources_table.HalfLight[1] # sources_table.HalfLight[2]

(***************************************************************************)
(* Properties of StepFluxCalSex.run                                        *)
(***************************************************************************)
FcQueried == fc_pc \in {"match", "fit", "output", "done", "raised"}
FcFitted == fc_pc \in {"output", "done"}

\* the catalog entries whose matched source is nearer than one pixel,
\* 0.76 * binning arcsec, from the positions themselves
NearerThanPixel ==
    [k \in 1..Len(idx) |->
        PairSep2(k, idx[k]) < (PixScale * binning) * (PixScale * binning)]

\* what the retained pairs consist of: catalog magnitude, instrumental
\* magnitude and the two errors of entry k and its matched source
RetainedCat == MaskSelect(GSC_Mag, NearerThanPixel)
RetainedCatErr == MaskSelect(GSC_MagErr, NearerThanPixel)
RetainedInst ==
    MaskSelect([k \in 1..Len(idx) |-> MaskSelect(seo_Mag, fc_seo_SN)[idx[k]]],
               NearerThanPixel)
RetainedInstErr ==
    MaskSelect([k \in 1..Len(idx) |-> MaskSelect(seo_MagErr, fc_seo_SN)[idx[k]]],
               NearerThanPixel)
RetainedVar ==
    [i \in 1..Len(RetainedCat) |->
        RetainedCatErr[i] * RetainedCatErr[i] + RetainedInstErr[i] * RetainedInstErr[i]]

\* C5: every (catalog entry, source) pair passed to the zero-point fit has
\* a separation strictly below 0.76 * binning / 3600 degrees: the data
\* points of the fit are those of the pairs nearer than that, and no other.
C5_FitPairsBelowThreshold ==
    FcFitted =>
        /\ Len(fit_call.x) = CountNonzero(NearerThanPixel)
        /\ fit_call.x = RetainedCat
        /\ fit_call.data = RetainedInst

\* a fit reached with one pair below the threshold and one pair exactly at it
C5_Witness ==
    /\ FcFitted
    /\ \E k \in 1..Len(idx) : NearerThanPixel[k]
    /\ \E k \in 1..Len(idx) :
          PairSep2(k, idx[k]) = (PixScale * binning) * (PixScale * binning)

\* C6: no extracted source appears in two retained pairs.
C6_SourceMatchedAtMostOnce ==
    FcFitted =>
        \A k1, k2 \in 1..Len(idx) :
            (k1 # k2 /\ NearerThanPixel[k1] /\ NearerThanPixel[k2])
                => idx[k1] # idx[k2]

\* C7: with fewer than 2 retained pairs the fit is not attempted, PHOTZP is
\* not written and the image is not rescaled.
C7_NoFitBelowTwoPairs ==
    /\ FcFitted => CountNonzero(NearerThanPixel) >= 2
    /\ fc_dataout.produced => CountNonzero(NearerThanPixel) >= 2

\* C8: only the rows with 0 < magnitude < 22 reach the matcher, and the ra,
\* dec, magnitude and magnitude error columns stay row-aligned: entry j of
\* the four columns is one row of the response, in the response's order.
C8_UsableRowsAligned ==
    FcQueried =>
        LET n == Len(GSC_Mag)
            usable == {k \in 1..Len(query_table) :
                          query_table[k].mag > 0 /\ query_table[k].mag < MagLimit}
        IN /\ Len(GSC_RA) = n /\ Len(GSC_DEC) = n /\ Len(GSC_MagErr) = n
           /\ n = Cardinality(usable)
           /\ \E f \in [1..n -> usable] :
                 /\ \A i, j \in 1..n : i < j => f[i] < f[j]
                 /\ \A j \in 1..n :
                       /\ GSC_RA[j] = query_table[f[j]].ra
                       /\ GSC_DEC[j] = query_table[f[j]].dec
                       /\ GSC_Mag[j] = query_table[f[j]].mag
                       /\ GSC_MagErr[j] = query_table[f[j]].magerr

\* a response with a not-observed row ahead of a usable row
C8_Witness ==
    /\ FcQueried
    /\ Len(query_table) = 2
    /\ query_table[1].mag <= 0
    /\ Len(GSC_Mag) = 1

\* the weighted sum of squares of dep - (m * indep + b) over the retained
\* pairs, times the common denominator of the weights
WeightedSquares(params, dep, indep) ==
    LET var == RetainedVar
        den == ProdSeq(var)
        r(i) == dep[i] - (params[1] * indep[i] + params[2])
    IN SumSeq([i \in 1..Len(dep) |-> r(i) * r(i) * (den \div var[i])])

\* parameter values the objective is compared at: a quadratic in (m, b) is
\* fixed by its values on a 3 by 3 grid
ProbeParams == {<<m, b>> : m \in 0..2, b \in {0 - 200, 0 - 40, 0}}

\* C9 as stated: the objective is the weighted sum of squared residuals of
\* catalog_mag = m * instrumental_mag + b (catalog magnitude dependent),
\* starting from m = 1, b = -2.
C9_CatalogMagIsDependent ==
    fc_pc = "output" =>
        /\ fit_call.x0 = <<1, 0 - 40>>
        /\ \A p \in ProbeParams :
              Nll(p, fit_call.x, fit_call.data, fit_call.errors2)
                  = WeightedSquares(p, RetainedCat, RetainedInst)

\* C9 amended: the objective is (half) the weighted sum of squared residuals
\* of instrumental_mag = m * catalog_mag + b, the instrumental magnitude
\* being the dependent and the catalog magnitude the independent variable,
\* with weights 1 / (catalog_err^2 + instrumental_err^2), starting from
\* m = 1, b = -2.
C9_InstrumentalMagIsDependent ==
    fc_pc = "output" =>
        /\ fit_call.x0 = <<1, 0 - 40>>
        /\ \A p \in ProbeParams :
              Nll(p, fit_call.x, fit_call.data, fit_call.errors2)
                  = WeightedSquares(p, RetainedInst, RetainedCat)

\* a fit of two pairs of different weight
C9_Witness ==
    /\ FcFitted
    /\ Len(fit_call.x) = 2
    /\ fit_call.errors2[1] # fit_call.errors2[2]
    /\ fit_call.x[1] # fit_call.x[2]

\* C10: after a successful run PHOTZP is minus the fitted intercept b and
\* the output image is bscale * (input image - bzero), applied once, with
\* bzero the 'zeropercent' percentile of the input image and
\* bscale = 3631 * 10^(b/2.5).
C10_ZeroPointAndRescale ==
    fc_pc = "done" =>
        /\ fc_dataout.PHOTZP = Num(0 - b_ml)
        /\ Len(fc_dataout.image) = Len(datain_image)
        /\ \A i \in 1..Len(datain_image) :
              IF IsNaN(datain_image[i]) THEN fc_dataout.image[i].k = "nan"
              ELSE /\ fc_dataout.image[i].k = "num"
                   /\ fc_dataout.image[i].exp50 = b_ml
                   /\ fc_dataout.image[i].mant =
                         3631 * (100 * datain_image[i].v
                                    - NanPercentile100(datain_image, 30))

\* a finished run with a fitted intercept other than the start value on an
\* image whose percentile falls between two pixels
C10_Witness ==
    /\ fc_pc = "done"
    /\ b_ml # 0 - 40
    /\ Len(fit_call.x) >= 2
    /\ NanPercentile100(datain_image, 30) % 100 # 0

\* C11: run does not wait for the source extractor process without end: once
\* it waits in process.communicate(), it gets past it, whether the process
\* ends or not.
C11_SexWaitEnds == (fc_pc = "communicate") ~> (fc_pc # "communicate")

\* C13: run does not wait for the catalog service without end: once the
\* request is sent, run gets past requests.get, whether an answer comes or not.
C13_QueryWaitEnds == (fc_pc = "query") ~> (fc_pc # "query")

\* the rows of the source extractor catalog that pass the cuts of lines
\* 134-136, from the fluxes themselves
StarRows ==
    {j \in 1..Len(seo_catalog) :
        /\ seo_catalog[j].FLUX_AUTO > 10 * seo_catalog[j].FLUXERR_AUTO
        /\ seo_catalog[j].FLUX_AUTO < 1000 * seo_catalog[j].FLUXERR_AUTO
        /\ seo_catalog[j].FLUX_APER - seo_catalog[j].FLUX_AUTO < 250}

\* the square of the separation of row k of the response and row j of the
\* source extractor catalog
RowSep2(k, j) ==
    Sep2(query_table[k].ra, query_table[k].dec,
         seo_catalog[j].ALPHA_J2000, seo_catalog[j].DELTA_J2000)

\* the rows of the response that give a data point, in order: the usable
\* rows with a star nearer than one pixel
PairedRows ==
    MaskSelect([k \in 1..Len(query_table) |-> k],
               [k \in 1..Len(query_table) |->
                    /\ query_table[k].mag > 0 /\ query_table[k].mag < 440
                    /\ \E j \in StarRows :
                          RowSep2(k, j) < (76 * binning) * (76 * binning)])

\* C21: the i-th data point of the fit has the magnitude and magnitude
\* error of the i-th paired row of the response and the instrumental
\* magnitude and magnitude error of one row of the source extractor catalog
\* that passes the acceptance cuts and is, of the rows that pass them, a
\* nearest one to that row of the response.
C21_FitPointsPairNearestStar ==
    FcFitted =>
        /\ Len(fit_call.x) = Len(PairedRows)
        /\ Len(fit_call.data) = Len(PairedRows)
        /\ Len(fit_call.errors2) = Len(PairedRows)
        /\ \A i \in 1..Len(PairedRows) :
              LET k == PairedRows[i]
              IN /\ fit_call.x[i] = query_table[k].mag
                 /\ \E j \in StarRows :
                       /\ \A j2 \in StarRows : RowSep2(k, j) <= RowSep2(k, j2)
                       /\ fit_call.data[i] = 0 - 50 * Log10(seo_catalog[j].FLUX_AUTO)
                       /\ fit_call.errors2[i] =
                             query_table[k].magerr * query_table[k].magerr
                             + ((22 * seo_catalog[j].FLUXERR_AUTO)
                                   \div seo_catalog[j].FLUX_AUTO)
                               * ((22 * seo_catalog[j].FLUXERR_AUTO)
                                   \div seo_catalog[j].FLUX_AUTO)

\* a fit with a data point whose star is the second row of the source
\* extractor catalog, the first row being a rejected source that lies
\* nearer to the catalog entry, behind a response row that is not usable
C21_Witness ==
    /\ FcFitted
    /\ Len(fit_call.x) >= 1
    /\ Len(seo_catalog) = 2
    /\ StarRows = {2}
    /\ PairedRows[1] > 1
    /\ RowSep2(PairedRows[1], 1) < RowSep2(PairedRows[1], 2)

(***************************************************************************)
(* Properties of StepAstrometry.run                                        *)
(***************************************************************************)
\* C12: an attempt killed at the timeout is a failed attempt and nothing
\* more: run never ends with an exception while the killed process of the
\* attempt has not ended yet.
C12_KilledAttemptGoesOn == as_process.state = "killed" => as_pc # "raised"

\* C14: with 'delete_temp' set, a run that has loaded its output ends
\* normally and leaves neither the .new nor the .wcs file, also when the
\* .wcs file was never there.
C14_DeleteLeavesNoTempFile ==
    (delete_temp /\ as_dataout.loaded /\ as_pc \in {"done", "raised"}) =>
        /\ as_pc = "done"
        /\ ~new_file
        /\ ~wcs_file

\* C18: the i-th attempt uses downsample factor ((i-1) mod nd) and parameter
\* option ((i-1) div nd) of the two lists, nd being the number of downsample
\* factors, so that no combination is tried twice and the downsample factor
\* varies fastest; and no attempt follows one that line 133 found valid.
C18_AttemptsInOrderUntilValid ==
    LET nd == Len(downsamples)
        n == Len(attempts)
    IN /\ n <= nd * Len(paramoptions)
       /\ \A i \in 1..n :
             /\ attempts[i].downsample = downsamples[((i - 1) % nd) + 1]
             /\ attempts[i].paramoption = paramoptions[((i - 1) \div nd) + 1]
       /\ \A i, j \in 1..n :
             i # j => <<attempts[i].downsample, attempts[i].paramoption>>
                          # <<attempts[j].downsample, attempts[j].paramoption>>
       /\ \A i \in 1..(n - 1) : ~attempts[i].valid
       /\ (n > 0 /\ attempts[n].valid) => as_pc \notin {"loop", "wait", "poll", "repoll"}

\* two downsample factors and two parameter options, the loop left at the
\* third attempt, which went into the second parameter option
C18_Witness ==
    /\ as_pc = "post"
    /\ Len(downsamples) = 2 /\ Len(paramoptions) = 2
    /\ Len(attempts) = 3
    /\ attempts[3].valid
    /\ attempts[3].paramoption = paramoptions[2]

\* C19: the output data object is loaded only in a run one of whose attempts
\* ended with code 0 and its output file in place.
C19_LoadedOnlyAfterValidAttempt ==
    as_dataout.loaded => \E i \in 1..Len(attempts) : attempts[i].valid

\* the time at which the last attempt was started: its deadline less the
\* 'timeout' it was given
LastAttemptStart == timeout - timeout_arg

\* C22: the search duration of the history message is the number of seconds
\* from the start of the last attempt to the writing of the message, whatever
\* the value of 'timeout'.
C22_HistoryDurationIsElapsed ==
    as_pc = "delete" => as_dataout.took = now - LastAttemptStart

====
